---- MODULE Spec2Model ----
(***************************************************************************)
(* TextSaver: the save_text tool of text_saver_mcp.py and its filename     *)
(* helpers validate_filename and sanitize_path.                            *)
(*                                                                         *)
(* A str is a sequence of one-character strings.  A text is a sequence of  *)
(* runs <<character, count>>, so that texts of 10 MiB are values the       *)
(* model can hold; no two adjacent runs carry the same character.  File    *)
(* contents are sequences of runs <<bytes of one unit, count>>.  Paths     *)
(* follow posixpath; os.linesep is the POSIX one.                          *)
(***************************************************************************)
EXTENDS Integers, Sequences, FiniteSets, TLC

VARIABLES
    fs,         \* the files under the storage root: path |-> content
    clock,      \* the second the wall clock showed when it was last read
    ncalls,     \* calls started so far
    lastcall,   \* history: path |-> outcome of the last call delivered for it
    pc,         \* per caller: the step of save_text it is at
    text,       \* per caller: the text argument
    requested,  \* per caller: the filename argument as passed
    filename,   \* per caller: the local filename, reassigned by save_text
    filepath,   \* per caller: the local filepath
    file_size,  \* per caller: the local file_size
    result,     \* per caller: the value save_text returned
    faulted,    \* history: a filesystem call of this call raised or failed
    fn          \* argument and results of validate_filename and sanitize_path

vars == <<fs, clock, ncalls, lastcall, pc, text, requested, filename,
          filepath, file_size, result, faulted, fn>>

(* ---------------------------- bounds ----------------------------------- *)
MaxLen == 3
MaxCalls == 2
MaxClock == 1

(* ------------------------- configuration ------------------------------- *)
MAX_TEXT_SIZE == 10 * 1024 * 1024
ALLOWED_SAVE_DIR == <<"/", "s", "r", "v">>
os_linesep == <<"\n">>

(* ------------------------- python values ------------------------------- *)
None == [type |-> "NoneType", val |-> <<>>]
Str(s) == [type |-> "str", val |-> s]
IntValue == [type |-> "int", val |-> <<>>]

(* ----------------------------- strings --------------------------------- *)
Lower == {"a", "b", "c", "d", "e", "f", "g", "h", "i", "j", "k", "l", "m",
          "n", "o", "p", "q", "r", "s", "t", "u", "v", "w", "x", "y", "z"}
Upper == {"A", "B", "C", "D", "E", "F", "G", "H", "I", "J", "K", "L", "M",
          "N", "O", "P", "Q", "R", "S", "T", "U", "V", "W", "X", "Y", "Z"}
Digits == {"0", "1", "2", "3", "4", "5", "6", "7", "8", "9"}
Alnum == Lower \cup Upper \cup Digits
AllowedChars == Alnum \cup {"_", "-", "."}

DotTxt == <<".", "t", "x", "t">>

Chars(s) == {s[i] : i \in DOMAIN s}

endswith(s, suffix) ==
    /\ Len(s) >= Len(suffix)
    /\ SubSeq(s, Len(s) - Len(suffix) + 1, Len(s)) = suffix

\* `sub in s` of two str
Contains(s, sub) ==
    \E i \in 1..(Len(s) - Len(sub) + 1) : SubSeq(s, i, i + Len(sub) - 1) = sub

\* posixpath.isabs
isabs(s) == Len(s) > 0 /\ s[1] = "/"

\* posixpath.basename: what follows the last '/'
basename(s) ==
    LET slashes == {i \in DOMAIN s : s[i] = "/"}
        last == IF slashes = {} THEN 0
                ELSE CHOOSE i \in slashes : \A j \in slashes : j <= i
    IN SubSeq(s, last + 1, Len(s))

\* posixpath.join of a directory and one more part
os_path_join(dir, part) ==
    IF isabs(part) THEN part ELSE dir \o <<"/">> \o part

\* SAFE_FILENAME_PATTERN.match(s): ^[a-zA-Z0-9][a-zA-Z0-9_\-\.]*$ where `$'
\* matches at the end of s and also just before a newline that ends s
SAFE_FILENAME_PATTERN_match(s) ==
    LET body == IF Len(s) > 0 /\ s[Len(s)] = "\n"
                THEN SubSeq(s, 1, Len(s) - 1) ELSE s
    IN /\ Len(body) >= 1
       /\ body[1] \in Alnum
       /\ \A i \in 2..Len(body) : body[i] \in AllowedChars

validate_filename(name) ==
    IF \/ isabs(name)
       \/ Contains(name, <<".", ".">>)
       \/ "/" \in Chars(name)
       \/ "\\" \in Chars(name)
    THEN FALSE
    ELSE SAFE_FILENAME_PATTERN_match(name)

FallbackName == <<"f", "i", "l", "e">> \o DotTxt

sanitize_path(name) ==
    LET base_filename == basename(name)
        safe_filename ==
            [i \in DOMAIN base_filename |->
                IF SAFE_FILENAME_PATTERN_match(<<base_filename[i]>>)
                THEN base_filename[i] ELSE "_"]
    IN IF safe_filename = <<>> THEN FallbackName ELSE safe_filename

(* ------------------- inputs of the filename functions ------------------- *)
FnChars == {"a", ".", "/", "\\", "_", "-", " ", "\n"}
SeqsUpTo(S, n) == UNION {[1..k -> S] : k \in 0..n}
PasswdPath == <<".", ".", "/", ".", ".", "/", "e", "t", "c", "/",
                "p", "a", "s", "s", "w", "d">>
MyReportTxt == <<"m", "y", " ", "r", "e", "p", "o", "r", "t">> \o DotTxt
FnInputs ==
    {s \o e : s \in SeqsUpTo(FnChars, MaxLen), e \in {<<>>, DotTxt}}
        \cup {PasswdPath, MyReportTxt}

(* ---------------------------- texts ------------------------------------ *)
Surrogate == "\\udc80"

\* UTF-8 bytes of one character (the lone surrogate has none: encode raises)
UTF8(c) ==
    CASE c = "a" -> <<97>>
      [] c = "b" -> <<98>>
      [] c = "\n" -> <<10>>
      [] c = "\r" -> <<13>>
      [] c = "é" -> <<195, 169>>
      [] OTHER -> <<>>

\* len(text): characters
RECURSIVE len(_)
len(t) == IF t = <<>> THEN 0 ELSE Head(t)[2] + len(Tail(t))

\* text.encode('utf-8') raises UnicodeEncodeError on a lone surrogate
Encodable(t) == \A i \in DOMAIN t : t[i][1] # Surrogate

\* len(text.encode('utf-8')): bytes
RECURSIVE encoded_len(_)
encoded_len(t) ==
    IF t = <<>> THEN 0
    ELSE Len(UTF8(Head(t)[1])) * Head(t)[2] + encoded_len(Tail(t))

\* text.encode('utf-8')
encode(t) == [i \in DOMAIN t |-> <<UTF8(t[i][1]), t[i][2]>>]

RECURSIVE Flatten(_)
Flatten(ss) == IF ss = <<>> THEN <<>> ELSE Head(ss) \o Flatten(Tail(ss))

\* what a file opened with open(path, 'w', encoding='utf-8') puts on disk for
\* file.write(text): newline translation to os.linesep, then UTF-8
TextIOBytes(t) ==
    [i \in DOMAIN t |->
        <<IF t[i][1] = "\n"
          THEN Flatten([k \in DOMAIN os_linesep |-> UTF8(os_linesep[k])])
          ELSE UTF8(t[i][1]),
          t[i][2]>>]

\* os.path.getsize of a content
RECURSIVE Size(_)
Size(content) ==
    IF content = <<>> THEN 0
    ELSE Len(Head(content)[1]) * Head(content)[2] + Size(Tail(content))

\* the content without its first n bytes
RECURSIVE DropBytes(_, _)
DropBytes(content, n) ==
    IF n = 0 \/ content = <<>> THEN content
    ELSE LET unit == Head(content)[1]
             cnt == Head(content)[2]
             whole == n \div Len(unit)
             part == n % Len(unit)
         IN IF n >= Len(unit) * cnt THEN DropBytes(Tail(content), n - Len(unit) * cnt)
            ELSE IF part = 0 THEN <<<<unit, cnt - whole>>>> \o Tail(content)
            ELSE <<<<SubSeq(unit, part + 1, Len(unit)), 1>>>>
                 \o (IF cnt - whole - 1 > 0 THEN <<<<unit, cnt - whole - 1>>>> ELSE <<>>)
                 \o Tail(content)

\* concatenation of two contents, runs of the same unit merged at the seam
Join(c1, c2) ==
    IF c1 = <<>> THEN c2
    ELSE IF c2 = <<>> THEN c1
    ELSE IF c1[Len(c1)][1] = c2[1][1]
         THEN SubSeq(c1, 1, Len(c1) - 1)
              \o <<<<c2[1][1], c1[Len(c1)][2] + c2[1][2]>>>> \o Tail(c2)
         ELSE c1 \o c2

\* write(2) of data at offset 0 of a file holding content
WriteAtStart(content, data) == Join(data, DropBytes(content, Size(data)))

(* ---------------------------- filesystem ------------------------------- *)
NoFiles == [path \in {} |-> <<>>]

exists(files, path) == path \in DOMAIN files

Put(files, path, content) ==
    [q \in DOMAIN files \cup {path} |-> IF q = path THEN content ELSE files[q]]

\* open(path, 'r+') on an existing file or 'x' on a new one: no truncation
OpenWithoutTruncation(files, path) ==
    IF path \in DOMAIN files THEN files ELSE Put(files, path, <<>>)

\* open(path, 'w'): O_CREAT | O_TRUNC
OpenForWriting(files, path) == Put(files, path, <<>>)

(* ------------------------ results and exceptions ------------------------ *)
NoResult == [status |-> "none", message |-> ""]
Error(message) == [status |-> "error", message |-> message]
Success(path, size, name) ==
    [status |-> "success", message |-> "Saved", path |-> path,
     size |-> size, filename |-> name]

OSErrorClasses == {"OSError", "PermissionError", "FileNotFoundError"}
ExceptionClasses ==
    OSErrorClasses \cup {"TextTooLargeError", "InvalidFilenameError",
                         "UnicodeEncodeError", "TypeError"}

Return_(value) == [kind |-> "return", value |-> value, exc |-> ""]
Raise_(exc) == [kind |-> "raise", value |-> NoResult, exc |-> exc]

\* the outer try without its last clause, `except Exception'
outer_except_without_catch_all(exc) ==
    IF exc = "TextTooLargeError" THEN Return_(Error("TextTooLarge"))
    ELSE IF exc = "InvalidFilenameError" THEN Return_(Error("InvalidFilename"))
    ELSE Raise_(exc)

\* the except clauses of the outer try
outer_except(exc) ==
    IF exc = "TextTooLargeError" THEN Return_(Error("TextTooLarge"))
    ELSE IF exc = "InvalidFilenameError" THEN Return_(Error("InvalidFilename"))
    ELSE IF exc \in ExceptionClasses THEN Return_(Error("UnexpectedFailure"))
    ELSE Raise_(exc)

\* the except clauses of the try around open and write, inside the outer try
inner_except(exc) ==
    IF exc = "PermissionError" THEN Return_(Error("PermissionDenied"))
    ELSE IF exc \in OSErrorClasses THEN Return_(Error("IOFailure"))
    ELSE outer_except(exc)

\* the size test with >= for >
text_too_large_at_boundary(t) == encoded_len(t) >= MAX_TEXT_SIZE

\* the size test on characters instead of bytes
text_too_large_in_characters(t) == len(t) > MAX_TEXT_SIZE

\* the size test of save_text
text_too_large(t) == encoded_len(t) > MAX_TEXT_SIZE

\* datetime.now().strftime("%Y-%m-%d-%H-%M-%S") at second `now' of the model's day
DigitChar(d) == <<"0", "1", "2", "3", "4", "5", "6", "7", "8", "9">>[d + 1]
timestamp(now) ==
    <<"2", "0", "2", "5", "-", "0", "1", "-", "0", "1", "-",
      "0", "0", "-", "0", "0", "-">>
        \o <<DigitChar((now \div 10) % 10), DigitChar(now % 10)>>

\* the name choice without the sanitization of a name that fails validation
chosen_name_unsanitized(name, now) ==
    IF name.type = "NoneType" \/ name.val = <<>>
    THEN timestamp(now) \o DotTxt
    ELSE name.val

\* the filename save_text settles on before the extension test
chosen_name(name, now) ==
    IF name.type = "NoneType" \/ name.val = <<>>
    THEN timestamp(now) \o DotTxt
    ELSE IF ~validate_filename(name.val) THEN sanitize_path(name.val)
    ELSE name.val

\* the extension appended without the endswith test
with_extension_always(name) == name \o DotTxt

\* the extension test
with_extension(name) == IF ~endswith(name, DotTxt) THEN name \o DotTxt ELSE name

(* ------------------------------ inputs ---------------------------------- *)
Procs == {1, 2}
Main == 1

ReportTxt == <<"r", "e", "p", "o", "r", "t">> \o DotTxt
Texts ==
    { Str(<<>>),
      Str(<<<<"é", 1>>, <<"\n", 1>>>>),
      Str(<<<<"a", MAX_TEXT_SIZE>>>>),
      Str(<<<<"a", MAX_TEXT_SIZE + 1>>>>),
      Str(<<<<"é", MAX_TEXT_SIZE \div 2 + 1>>>>),
      Str(<<<<Surrogate, 1>>>>),
      IntValue }
CallNames ==
    { None,
      Str(<<>>),
      Str(ReportTxt),
      Str(<<"r", "e", "p", "o", "r", "t">>),
      Str(PasswdPath),
      Str(<<"/">>),
      Str(<<"a", "\\", "b">>),
      Str(<<"x">> \o DotTxt \o <<"\n">>),
      IntValue }
ConcTexts == {Str(<<<<"a", 4>>>>), Str(<<<<"b", 2>>>>)}
ConcNames == {Str(ReportTxt), None}

(* ------------------------------ states ---------------------------------- *)
FnIdle == [step |-> "idle", arg |-> <<>>, valid |-> FALSE, safe |-> <<>>, again |-> <<>>]

InitCalls ==
    /\ fs = NoFiles
    /\ clock = 0
    /\ ncalls = 0
    /\ lastcall = NoFiles
    /\ pc = [p \in Procs |-> "idle"]
    /\ text = [p \in Procs |-> None]
    /\ requested = [p \in Procs |-> None]
    /\ filename = [p \in Procs |-> None]
    /\ filepath = [p \in Procs |-> <<>>]
    /\ file_size = [p \in Procs |-> 0]
    /\ result = [p \in Procs |-> NoResult]
    /\ faulted = [p \in Procs |-> FALSE]

Init == InitCalls /\ fn = FnIdle

locals == <<text, requested, filename, filepath, file_size>>

\* the call of p ends: it returns a value or an exception leaves save_text
Complete(p, outcome) ==
    IF outcome.kind = "return"
    THEN /\ pc' = [pc EXCEPT ![p] = "done"]
         /\ result' = [result EXCEPT ![p] = outcome.value]
    ELSE /\ pc' = [pc EXCEPT ![p] = "raised"]
         /\ UNCHANGED result

Goto(p, label) == pc' = [pc EXCEPT ![p] = label] /\ UNCHANGED result

Fault(p) == faulted' = [faulted EXCEPT ![p] = TRUE]

(* ----------------------------- save_text -------------------------------- *)
\* the host calls save_text(t, f)
Call(p, ts, fs_) ==
    /\ pc[p] = "idle"
    /\ ncalls < MaxCalls
    /\ \E t \in ts, f \in fs_ :
        /\ text' = [text EXCEPT ![p] = t]
        /\ requested' = [requested EXCEPT ![p] = f]
        /\ filename' = [filename EXCEPT ![p] = f]
    /\ ncalls' = ncalls + 1
    /\ pc' = [pc EXCEPT ![p] = "check_text"]
    /\ result' = [result EXCEPT ![p] = NoResult]
    /\ faulted' = [faulted EXCEPT ![p] = FALSE]
    /\ UNCHANGED <<fs, clock, lastcall, filepath, file_size, fn>>

CallAlone(p) == (\A q \in Procs : pc[q] = "idle") /\ Call(p, Texts, CallNames)
CallConcurrently(p) == Call(p, ConcTexts, ConcNames)

\* isinstance test, encode, size test
CheckText(p) ==
    /\ pc[p] = "check_text"
    /\ IF text[p].type # "str" THEN Complete(p, Return_(Error("InvalidInput")))
       ELSE IF ~Encodable(text[p].val) THEN Complete(p, outer_except("UnicodeEncodeError"))
       ELSE IF text_too_large(text[p].val) THEN Complete(p, outer_except("TextTooLargeError"))
       ELSE Goto(p, "derive_filename")
    /\ UNCHANGED <<fs, clock, ncalls, lastcall, locals, faulted, fn>>

\* timestamp name from the wall clock, which has not run backwards since it
\* was last read, or validation and sanitization; then the extension
DeriveFilename(p) ==
    /\ pc[p] = "derive_filename"
    /\ IF filename[p].type \notin {"NoneType", "str"}
       THEN /\ Complete(p, outer_except("TypeError"))
            /\ UNCHANGED <<filename, clock>>
       ELSE \E now \in clock..MaxClock :
            /\ clock' = IF filename[p].type = "NoneType" \/ filename[p].val = <<>>
                        THEN now ELSE clock
            /\ filename' = [filename EXCEPT
                   ![p] = Str(with_extension(chosen_name(filename[p], clock')))]
            /\ Goto(p, "ensure_directory")
    /\ UNCHANGED <<fs, ncalls, lastcall, text, requested, filepath,
                   file_size, faulted, fn>>

\* mkdir(parents, exist_ok) of the existing storage root, join, os.getcwd
EnsureDirectory(p) ==
    /\ pc[p] = "ensure_directory"
    /\ \/ /\ filepath' = [filepath EXCEPT
                 ![p] = os_path_join(ALLOWED_SAVE_DIR, filename[p].val)]
          /\ Goto(p, "open")
          /\ UNCHANGED faulted
       \/ \E exc \in {"PermissionError", "OSError"} :
             /\ Complete(p, outer_except(exc))
             /\ Fault(p)
             /\ UNCHANGED filepath
    /\ UNCHANGED <<fs, clock, ncalls, lastcall, text, requested, filename,
                   file_size, fn>>

\* open(filepath, 'w', encoding='utf-8')
OpenFile(p) ==
    /\ pc[p] = "open"
    /\ \/ /\ fs' = OpenForWriting(fs, filepath[p])
          /\ Goto(p, "write")
          /\ UNCHANGED faulted
       \/ \E exc \in {"PermissionError", "OSError"} :
             /\ Complete(p, inner_except(exc))
             /\ Fault(p)
             /\ UNCHANGED fs
    /\ UNCHANGED <<clock, ncalls, lastcall, locals, fn>>

\* file.write(text) and the close that ends the with block: the buffered
\* text reaches the file in one write at the descriptor's offset 0; a write
\* that fails leaves the file as open left it
WriteFile(p) ==
    /\ pc[p] = "write"
    /\ \/ /\ fs' = Put(fs, filepath[p],
                       WriteAtStart(fs[filepath[p]], TextIOBytes(text[p].val)))
          /\ Goto(p, "check_exists")
          /\ UNCHANGED faulted
       \/ /\ Complete(p, inner_except("OSError"))
          /\ Fault(p)
          /\ UNCHANGED fs
    /\ UNCHANGED <<clock, ncalls, lastcall, locals, fn>>

\* os.path.exists(filepath), which answers False when stat fails
CheckExists(p) ==
    /\ pc[p] = "check_exists"
    /\ \/ /\ IF ~exists(fs, filepath[p])
             THEN Complete(p, Return_(Error("WriteVerificationFailed")))
             ELSE Goto(p, "get_size")
          /\ UNCHANGED faulted
       \/ /\ Complete(p, Return_(Error("WriteVerificationFailed")))
          /\ Fault(p)
    /\ UNCHANGED <<fs, clock, ncalls, lastcall, locals, fn>>

\* os.path.getsize(filepath), the empty-file test and the success result
GetSize(p) ==
    /\ pc[p] = "get_size"
    /\ \/ LET size == Size(fs[filepath[p]])
          IN /\ file_size' = [file_size EXCEPT ![p] = size]
             /\ IF size = 0 /\ len(text[p].val) > 0
                THEN Complete(p, Return_(Error("WriteVerificationFailed")))
                ELSE Complete(p, Return_(Success(filepath[p], size, filename[p].val)))
             /\ UNCHANGED faulted
       \/ /\ Complete(p, outer_except("FileNotFoundError"))
          /\ Fault(p)
          /\ UNCHANGED file_size
    /\ UNCHANGED <<fs, clock, ncalls, lastcall, text, requested, filename,
                   filepath, fn>>

\* the host takes the outcome of the call
Deliver(p) ==
    /\ pc[p] \in {"done", "raised"}
    /\ lastcall' = IF filepath[p] = <<>> THEN lastcall
                   ELSE Put(lastcall, filepath[p],
                            [status |-> result[p].status, faulted |-> faulted[p],
                             size |-> file_size[p]])
    /\ pc' = [pc EXCEPT ![p] = "idle"]
    /\ text' = [text EXCEPT ![p] = None]
    /\ requested' = [requested EXCEPT ![p] = None]
    /\ filename' = [filename EXCEPT ![p] = None]
    /\ filepath' = [filepath EXCEPT ![p] = <<>>]
    /\ file_size' = [file_size EXCEPT ![p] = 0]
    /\ result' = [result EXCEPT ![p] = NoResult]
    /\ faulted' = [faulted EXCEPT ![p] = FALSE]
    /\ UNCHANGED <<fs, clock, ncalls, fn>>

Step(p) ==
    \/ CheckText(p)
    \/ DeriveFilename(p)
    \/ EnsureDirectory(p)
    \/ OpenFile(p)
    \/ WriteFile(p)
    \/ CheckExists(p)
    \/ GetSize(p)
    \/ Deliver(p)

\* one caller, one call at a time
Next == CallAlone(Main) \/ Step(Main)
Spec == Init /\ [][Next]_vars

\* two callers whose calls interleave
NextConc == \E p \in Procs : CallConcurrently(p) \/ Step(p)
SpecConc == Init /\ [][NextConc]_vars

(* --------------- the filename functions on bounded inputs --------------- *)
InitFn ==
    /\ InitCalls
    /\ \E s \in FnInputs :
          fn = [step |-> "input", arg |-> s, valid |-> FALSE,
                safe |-> <<>>, again |-> <<>>]

calls == <<fs, clock, ncalls, lastcall, pc, locals, result, faulted>>

Validate ==
    /\ fn.step = "input"
    /\ fn' = [fn EXCEPT !.step = "validated", !.valid = validate_filename(fn.arg)]
    /\ UNCHANGED calls

Sanitize ==
    /\ fn.step = "validated"
    /\ fn' = [fn EXCEPT !.step = "sanitized", !.safe = sanitize_path(fn.arg)]
    /\ UNCHANGED calls

SanitizeAgain ==
    /\ fn.step = "sanitized"
    /\ fn' = [fn EXCEPT !.step = "resanitized", !.again = sanitize_path(fn.safe)]
    /\ UNCHANGED calls

NextFn == Validate \/ Sanitize \/ SanitizeAgain
SpecFn == InitFn /\ [][NextFn]_vars

(* ============================ properties ================================ *)
Root == ALLOWED_SAVE_DIR \o <<"/">>

\* path is a direct child of the storage root
Confined(path) ==
    LET name == SubSeq(path, Len(Root) + 1, Len(path))
    IN /\ Len(path) > Len(Root)
       /\ SubSeq(path, 1, Len(Root)) = Root
       /\ "/" \notin Chars(name)
       /\ "\\" \notin Chars(name)
       /\ name \notin {<<".">>, <<".", ".">>}

AtOrPastOpen(p) == pc[p] \in {"open", "write", "check_exists", "get_size"}

IsText(v) == v.type = "str" /\ Encodable(v.val)
Fits(v) == IsText(v) /\ encoded_len(v.val) <= MAX_TEXT_SIZE
Oversize(v) == IsText(v) /\ encoded_len(v.val) > MAX_TEXT_SIZE

\* C1: every file that save_text opens, and so every file that exists, is a
\* direct child of ALLOWED_SAVE_DIR: its name has no '/' and no '\' and is
\* neither '.' nor '..'; the call with filename "../../etc/passwd" opens
\* passwd.txt in the storage root.
PathConfinement ==
    /\ \A path \in DOMAIN fs : Confined(path)
    /\ \A p \in Procs : AtOrPastOpen(p) =>
          /\ Confined(filepath[p])
          /\ requested[p] = Str(PasswdPath) =>
                filepath[p] = Root \o <<"p", "a", "s", "s", "w", "d">> \o DotTxt

PathConfinementWitness ==
    \E p \in Procs :
        /\ pc[p] = "check_exists"
        /\ requested[p] = Str(PasswdPath)
        /\ filepath[p] \in DOMAIN fs
        /\ fs[filepath[p]] # <<>>

\* C2: a call that runs alone and meets no filesystem fault, with a text of
\* at most MAX_TEXT_SIZE encoded bytes and a filename that is absent or a
\* str, returns success; the size it reports and the size of the file on
\* disk are the UTF-8 encoded length of the text.
SaveSucceeds ==
    \A p \in Procs :
        (/\ pc[p] = "done"
         /\ ~faulted[p]
         /\ Fits(text[p])
         /\ requested[p].type \in {"NoneType", "str"})
        => /\ result[p].status = "success"
           /\ result[p].size = encoded_len(text[p].val)
           /\ result[p].path \in DOMAIN fs
           /\ Size(fs[result[p].path]) = encoded_len(text[p].val)

SaveSucceedsWitness ==
    \E p \in Procs :
        /\ pc[p] = "done"
        /\ ~faulted[p]
        /\ encoded_len(text[p].val) = MAX_TEXT_SIZE
        /\ result[p].status = "success"
        /\ result[p].size = MAX_TEXT_SIZE

\* C3: no step of a call whose text encodes to more than MAX_TEXT_SIZE bytes
\* changes the filesystem, and the call ends with the TextTooLarge error.
OversizeRejected ==
    [][\A p \in Procs :
          (Oversize(text[p]) \/ Oversize(text'[p])) =>
              /\ fs' = fs
              /\ pc'[p] # "raised"
              /\ pc'[p] = "done" => result'[p] = Error("TextTooLarge")]_vars

OversizeRejectedWitness ==
    \E p \in Procs :
        /\ pc[p] = "done"
        /\ Oversize(text[p])
        /\ result[p] = Error("TextTooLarge")
        /\ requested[p].type = "str"
        /\ requested[p].val # <<>>
        /\ os_path_join(ALLOWED_SAVE_DIR,
               with_extension(chosen_name(requested[p], clock))) \in DOMAIN fs

\* C4: sanitize_path applied to its own result returns that result.
SanitizeIdempotent ==
    fn.step = "resanitized" => fn.again = fn.safe

\* C5: no exception leaves save_text; every call ends with a result whose
\* status is success or error and that has a message, and a call in which a
\* step faulted (encoding, filename validation, mkdir, open, write, exists,
\* getsize) ends with status error.
ErrorsBecomeResults ==
    \A p \in Procs :
        /\ pc[p] # "raised"
        /\ pc[p] = "done" =>
              /\ result[p].status \in {"success", "error"}
              /\ result[p].message # ""
              /\ (\/ faulted[p]
                  \/ text[p].type # "str"
                  \/ ~Encodable(text[p].val)
                  \/ requested[p].type \notin {"NoneType", "str"})
                 => result[p].status = "error"

ErrorsBecomeResultsWitness ==
    \E p \in Procs :
        /\ pc[p] = "done"
        /\ faulted[p]
        /\ filepath[p] \in DOMAIN fs
        /\ result[p] = Error("UnexpectedFailure")

\* C6: when a call follows an earlier call to the same final filename, and
\* neither met a fault, both return success, the later one reports the
\* encoded length of its own text, and the file holds exactly the encoded
\* text of the later call.
OverwriteSemantics ==
    \A p \in Procs :
        (/\ pc[p] = "done"
         /\ ~faulted[p]
         /\ filepath[p] \in DOMAIN lastcall
         /\ ~lastcall[filepath[p]].faulted)
        => /\ lastcall[filepath[p]].status = "success"
           /\ result[p].status = "success"
           /\ result[p].size = encoded_len(text[p].val)
           /\ fs[filepath[p]] = encode(text[p].val)

OverwriteSemanticsWitness ==
    \E p \in Procs :
        /\ pc[p] = "done"
        /\ result[p].status = "success"
        /\ filepath[p] \in DOMAIN lastcall
        /\ lastcall[filepath[p]].status = "success"
        /\ lastcall[filepath[p]].size > result[p].size
        /\ result[p].size > 0

NameDerived(p) ==
    \/ pc[p] \in {"ensure_directory", "open", "write", "check_exists", "get_size"}
    \/ pc[p] = "done" /\ filepath[p] # <<>>

\* C7: the filename save_text writes to and reports ends with ".txt", for an
\* absent, a valid and a sanitized filename; a name that ends with ".txt"
\* after validation or sanitization is used as it is.
TxtSuffix ==
    \A p \in Procs : NameDerived(p) =>
        /\ endswith(filename[p].val, DotTxt)
        /\ IF requested[p].type = "NoneType" \/ requested[p].val = <<>>
           THEN \E c \in 0..clock : filename[p].val = timestamp(c) \o DotTxt
           ELSE LET name == IF validate_filename(requested[p].val)
                            THEN requested[p].val
                            ELSE sanitize_path(requested[p].val)
                IN IF endswith(name, DotTxt) THEN filename[p].val = name
                   ELSE filename[p].val = name \o DotTxt
        /\ AtOrPastOpen(p) => filepath[p] = Root \o filename[p].val
        /\ result[p].status = "success" =>
              /\ result[p].filename = filename[p].val
              /\ result[p].path = Root \o filename[p].val

TxtSuffixWitness ==
    \E p \in Procs :
        /\ pc[p] = "done"
        /\ result[p].status = "success"
        /\ requested[p] = Str(<<"/">>)
        /\ result[p].filename = FallbackName

\* a segment of name, between separators, is ".."
HasParentSegment(name) ==
    \E i \in 1..(Len(name) - 1) :
        /\ name[i] = "." /\ name[i + 1] = "."
        /\ i = 1 \/ name[i - 1] \in {"/", "\\"}
        /\ i + 1 = Len(name) \/ name[i + 2] \in {"/", "\\"}

\* C8: validate_filename(f) is True exactly when f is not absolute, has no
\* '/' and no '\', has no '..' segment, starts with an alphanumeric
\* character and continues with alphanumeric characters, '_', '-' and '.'.
ValidateExact ==
    fn.step \in {"validated", "sanitized", "resanitized"} =>
        (fn.valid <=>
            /\ ~isabs(fn.arg)
            /\ "/" \notin Chars(fn.arg)
            /\ "\\" \notin Chars(fn.arg)
            /\ ~HasParentSegment(fn.arg)
            /\ Len(fn.arg) >= 1
            /\ fn.arg[1] \in Alnum
            /\ \A i \in 2..Len(fn.arg) : fn.arg[i] \in AllowedChars)

\* C9: sanitize_path(s) is the final path component of s with every
\* character outside {alphanumeric, '_', '-', '.'} replaced by '_' and every
\* other character kept, or the fallback name when the component is empty;
\* it is never empty.
SanitizeKeepsAllowed ==
    fn.step \in {"sanitized", "resanitized"} =>
        LET base == basename(fn.arg)
        IN /\ fn.safe # <<>>
           /\ fn.safe = IF base = <<>> THEN FallbackName
                        ELSE [i \in DOMAIN base |->
                                IF base[i] \in AllowedChars THEN base[i] ELSE "_"]

\* C10: when two calls with the same filename interleave, every call that
\* met no fault returns success, and once the calls on a file are over the
\* file holds the complete text of one of them.
Settled(path) ==
    /\ \A p \in Procs : filepath[p] = path => pc[p] = "done" /\ ~faulted[p]
    /\ path \in DOMAIN lastcall => ~lastcall[path].faulted

LastWriteWins ==
    /\ \A p \in Procs : pc[p] = "done" /\ ~faulted[p] => result[p].status = "success"
    /\ \A path \in DOMAIN fs :
          Settled(path) => \E t \in ConcTexts : fs[path] = encode(t.val)

====
